---- MODULE Spec2Model ----
(***************************************************************************)
(* Gemini Museum Guide Pro (src/main.py): a Streamlit script.  Streamlit   *)
(* executes the script top to bottom once per user event ("script run");   *)
(* st.session_state survives from run to run, module-level names do not.   *)
(* One script run walks through the five tab blocks in order.  The model   *)
(* follows one browser session: pc is the position of the running script.  *)
(* Lines 88, 127 and 158 of main.py ("---") are separator lines and are    *)
(* not modelled.                                                           *)
(***************************************************************************)
EXTENDS Integers, Sequences, FiniteSets, TLC

(* ---------------------------- bounds ----------------------------------- *)
MaxRuns == 3          \* script runs (user events) explored in one session
MaxLog == 4           \* interactions are triggered while their entries fit
MaxChunks == 2        \* longest reply stream the chat endpoint delivers

(* texts the collaborators can produce *)
Msgs == {"", "q"}                 \* text_input values / transcription results
Prompts == {"", "p"}              \* optional artifact question
Chunks == {"a", "b "}             \* chunk.text values of a streamed reply
Insights == {"vase"}              \* response.text of the vision endpoint
Facts == {"F1", "F2"}             \* fact_response.text values

(* ------------------------ program constants ---------------------------- *)
max_attempts == 5

QuotaMsg == "Quota exceeded. Please wait a moment and try again."
GenericMsg == "An error occurred: "
KeyMsg == "API key not found. Please set 'GOOGLE_API_KEY' in your Streamlit secrets."
NotUnderstoodMsg == "Could not understand audio. Please try speaking more clearly."
SpeechServiceMsg == "Speech recognition service error: "
NoHistoryMsg == "No conversation history yet."
FactPrompt == "Give me a fascinating, short historical or cultural fact suitable for a museum visitor that I haven't heard before."

(* exceptions a collaborator can raise *)
ResourceExhausted == "ResourceExhausted"     \* provider quota
ProviderError == "Exception"                 \* any other provider failure
UnknownValueError == "UnknownValueError"     \* speech not recognised
RequestError == "RequestError"               \* speech service unreachable
IOFailure == "IOError"                       \* image / audio file failure
GatewayErrors == {ResourceExhausted, ProviderError}

VARIABLES
  secret,             \* TRUE iff st.secrets holds GOOGLE_API_KEY
  pc,                 \* position of the script run
  clicked,            \* the button whose click triggered this run
  chat,               \* module-level ChatSession: [id, history]
  chat_history,       \* st.session_state["chat_history"]
  fun_facts_history,  \* st.session_state["fun_facts_history"]
  query,              \* user_query / voice_query of the running chat handler
  full_reply,         \* local of the chat handlers
  attempts,           \* local of the fact loop
  fact_generated,     \* local of the fact loop
  tab,                \* tab block whose handler ran last (0 = none)
  raised,             \* exception raised inside that handler ("none" if none)
  shown,              \* what that handler rendered, in order: <<kind, text>>
  uncaught,           \* TRUE iff an exception left the script run uncaught
  gw,                 \* gateway calls made by that handler, in order, with results
  streamed,           \* chunks the chat endpoint delivered to that handler
  log0,               \* chat_history when that handler started
  facts0,             \* fun_facts_history when that handler started
  done                \* successful interactions of the session, in order

vars == <<secret, pc, clicked, chat, chat_history, fun_facts_history,
          query, full_reply, attempts, fact_generated, tab, raised, shown,
          uncaught, gw, streamed, log0, facts0, done>>

session == <<chat_history, fun_facts_history>>
locals == <<query, full_reply, attempts, fact_generated>>
inputs == <<secret, clicked>>

(* ----------------------------- helpers --------------------------------- *)
Range(s) == {s[i] : i \in 1..Len(s)}

Show(kind, text) == Append(shown, <<kind, text>>)

(* a gateway call: the method, its arguments, and what it returned ("stream"
   for a chat response) or raised *)
Call(method, args, result) == [method |-> method, args |-> args, result |-> result]

(* the interaction's entries still fit into the explored log *)
Room(n) == Len(chat_history) + n <= MaxLog

(* a tab block's handler starts: exc is what its first step raises ("none"
   if nothing), calls the gateway calls that step makes, out what it renders *)
Enter(t, exc, calls, out) ==
  /\ tab' = t
  /\ raised' = exc
  /\ shown' = out
  /\ gw' = calls
  /\ streamed' = <<>>
  /\ log0' = chat_history
  /\ facts0' = fun_facts_history

Keep == UNCHANGED <<tab, raised, shown, gw, streamed, log0, facts0>>

(* the session before its first script run; lines 36-39 create the two     *)
(* session_state lists empty in the first run and leave them alone later   *)
Init ==
  /\ secret \in BOOLEAN
  /\ pc = "idle"
  /\ clicked = "none"
  /\ chat = [id |-> 0, history |-> <<>>]
  /\ chat_history = <<>>
  /\ fun_facts_history = <<>>
  /\ query = ""
  /\ full_reply = ""
  /\ attempts = 0
  /\ fact_generated = FALSE
  /\ shown = <<>>
  /\ tab = 0
  /\ raised = "none"
  /\ uncaught = FALSE
  /\ gw = <<>>
  /\ streamed = <<>>
  /\ log0 = <<>>
  /\ facts0 = <<>>
  /\ done = <<>>

(* ------------------ lines 14-42: top of the script --------------------- *)
(* A user event starts a script run; at most one button is True in a run.  *)
Buttons == {"none", "analyze", "ask", "fact"}

\* faulty variant: the error is rendered but the script is not stopped
StartNoKeyGoesOn ==
  /\ pc \in {"idle", "stopped"}
  /\ ~secret
  /\ chat.id < MaxRuns
  /\ Enter(0, "KeyError", <<>>, <<<<"error", KeyMsg>>>>)
  /\ chat' = [id |-> chat.id + 1, history |-> <<>>]
  /\ pc' = "tab1"
  /\ UNCHANGED <<inputs, session, locals, uncaught, done>>

(* lines 17-22: KeyError -> st.error, st.stop; no widget is ever rendered *)
StartNoKey ==
  /\ pc \in {"idle", "stopped"}
  /\ ~secret
  /\ Enter(0, "KeyError", <<>>, <<<<"error", KeyMsg>>>>)
  /\ pc' = "stopped"
  /\ UNCHANGED <<inputs, chat, session, locals, uncaught, done>>

\* faulty variant: the log is created afresh in every run
StartRunResetsLog(button) ==
  /\ pc \in {"idle", "crashed"}
  /\ secret
  /\ chat.id < MaxRuns
  /\ clicked' = button
  /\ chat' = [id |-> chat.id + 1, history |-> <<>>]
  /\ query' = ""
  /\ full_reply' = ""
  /\ attempts' = 0
  /\ fact_generated' = FALSE
  /\ chat_history' = <<>>
  /\ tab' = 0
  /\ raised' = "none"
  /\ shown' = <<>>
  /\ gw' = <<>>
  /\ streamed' = <<>>
  /\ log0' = <<>>
  /\ facts0' = fun_facts_history
  /\ uncaught' = FALSE
  /\ pc' = "tab1"
  /\ UNCHANGED <<secret, fun_facts_history, done>>

(* lines 17-42: configure, build the models, start_chat(history=[]); the
   names of the previous run are gone *)
StartRun(button) ==
  /\ pc \in {"idle", "crashed"}
  /\ secret
  /\ chat.id < MaxRuns
  /\ clicked' = button
  /\ chat' = [id |-> chat.id + 1, history |-> <<>>]
  /\ query' = ""
  /\ full_reply' = ""
  /\ attempts' = 0
  /\ fact_generated' = FALSE
  /\ Enter(0, "none", <<>>, <<>>)
  /\ uncaught' = FALSE
  /\ pc' = "tab1"
  /\ UNCHANGED <<secret, session, done>>

(* ------------------ lines 45-64: tab 1, Artifact Explorer -------------- *)
(* lines 62-64, 84-86, 152-155: the except clauses of tabs 1, 2 and 4 *)
ProviderMessage(exc) == IF exc = ResourceExhausted THEN QuotaMsg ELSE GenericMsg

(* line 50: no upload, the block renders the two widgets only *)
Tab1NoFile ==
  /\ pc = "tab1"
  /\ clicked # "analyze"
  /\ Enter(1, "none", <<>>, <<>>)
  /\ pc' = "tab2"
  /\ UNCHANGED <<inputs, chat, session, locals, uncaught, done>>

(* line 51: Image.open raises outside any try; the script run ends there *)
Tab1OpenFails ==
  /\ pc = "tab1"
  /\ clicked # "analyze"
  /\ Enter(1, IOFailure, <<>>, <<<<"exception", IOFailure>>>>)
  /\ uncaught' = TRUE
  /\ clicked' = "none"
  /\ pc' = "crashed"
  /\ UNCHANGED <<secret, chat, session, locals, done>>

(* lines 51-54: image shown, Analyze button not clicked *)
Tab1NoClick ==
  /\ pc = "tab1"
  /\ clicked # "analyze"
  /\ Enter(1, "none", <<>>, <<<<"image", "Uploaded Artifact">>>>)
  /\ pc' = "tab2"
  /\ UNCHANGED <<inputs, chat, session, locals, uncaught, done>>

\* faulty variant: the question is sent even when it is empty
InsightArgsAlwaysBoth(image_prompt) == <<image_prompt, "image">>

(* line 57: the argument of vision_model.generate_content *)
InsightArgs(image_prompt) ==
  IF image_prompt # "" THEN <<image_prompt, "image">> ELSE <<"image">>

(* lines 54-64: Analyze clicked (the button exists only under an opened
   image); outcome is the endpoint's text or the exception it raises *)
Tab1Analyze(image_prompt, outcome) ==
  /\ pc = "tab1"
  /\ clicked = "analyze"
  /\ Room(1)
  /\ IF outcome \in Insights
       THEN /\ Enter(1, "none", <<Call("generate_content", InsightArgs(image_prompt), outcome)>>,
                     <<<<"image", "Uploaded Artifact">>,
                       <<"success", "Here's what Gemini says:">>,
                       <<"write", outcome>>>>)
            /\ chat_history' = Append(chat_history, <<"Artifact Insight", outcome>>)
            /\ done' = Append(done, "insight")
       ELSE /\ Enter(1, outcome, <<Call("generate_content", InsightArgs(image_prompt), outcome)>>,
                     <<<<"image", "Uploaded Artifact">>,
                       <<"error", ProviderMessage(outcome)>>>>)
            /\ UNCHANGED <<chat_history, done>>
  /\ pc' = "tab2"
  /\ UNCHANGED <<inputs, chat, fun_facts_history, locals, uncaught>>

Tab1 ==
  \/ Tab1NoFile
  \/ Tab1OpenFails
  \/ Tab1NoClick
  \/ \E p \in Prompts, o \in Insights \cup GatewayErrors : Tab1Analyze(p, o)

(* ------------------ lines 68-86: tab 2, Smart Tour Chatbot ------------- *)
\* faulty variant: the chunk is put in front of the reply
AccumulatePrepend(reply, text) == text \o " " \o reply

(* lines 80 and 116: full_reply += chunk.text + " " *)
Accumulate(reply, text) == reply \o text \o " "

(* line 72: Ask Guide not clicked *)
Tab2NoClick ==
  /\ pc = "tab2"
  /\ clicked # "ask"
  /\ Enter(2, "none", <<>>, <<>>)
  /\ pc' = "tab3"
  /\ UNCHANGED <<inputs, chat, session, locals, uncaught, done>>

(* line 73: the truth value of user_query *)
HasText(user_query) == user_query # ""

(* line 73: clicked with an empty text input: nothing happens *)
Tab2Empty(user_query) ==
  /\ pc = "tab2"
  /\ clicked = "ask"
  /\ ~HasText(user_query)
  /\ Enter(2, "none", <<>>, <<>>)
  /\ pc' = "tab3"
  /\ UNCHANGED <<inputs, chat, session, locals, uncaught, done>>

\* faulty variant: the user entry is logged when the message is sent
Tab2SendLogsFirst(user_query) ==
  /\ pc = "tab2"
  /\ clicked = "ask"
  /\ HasText(user_query)
  /\ Room(2)
  /\ Enter(2, "none", <<Call("send_message", <<user_query>>, "stream")>>, <<>>)
  /\ query' = user_query
  /\ chat' = [chat EXCEPT !.history = Append(@, user_query)]
  /\ full_reply' = ""
  /\ chat_history' = Append(chat_history, <<"You", user_query>>)
  /\ pc' = "t2_stream"
  /\ UNCHANGED <<inputs, fun_facts_history, attempts, fact_generated, uncaught, done>>

(* lines 73-77: chat.send_message(user_query, stream=True) returns the
   response; the turn is recorded in the ChatSession *)
Tab2Send(user_query) ==
  /\ pc = "tab2"
  /\ clicked = "ask"
  /\ HasText(user_query)
  /\ Room(2)
  /\ Enter(2, "none", <<Call("send_message", <<user_query>>, "stream")>>, <<>>)
  /\ query' = user_query
  /\ chat' = [chat EXCEPT !.history = Append(@, user_query)]
  /\ full_reply' = ""
  /\ pc' = "t2_stream"
  /\ UNCHANGED <<inputs, session, attempts, fact_generated, uncaught, done>>

\* faulty variant: the except clause stops the script
Tab2SendFailsStops(user_query, exc) ==
  /\ pc = "tab2"
  /\ clicked = "ask"
  /\ HasText(user_query)
  /\ Enter(2, exc, <<Call("send_message", <<user_query>>, exc)>>,
           <<<<"error", ProviderMessage(exc)>>>>)
  /\ query' = user_query
  /\ pc' = "stopped"
  /\ UNCHANGED <<inputs, chat, session, full_reply, attempts, fact_generated,
                 uncaught, done>>

(* lines 76, 83-86: send_message itself raises *)
Tab2SendFails(user_query, exc) ==
  /\ pc = "tab2"
  /\ clicked = "ask"
  /\ HasText(user_query)
  /\ Enter(2, exc, <<Call("send_message", <<user_query>>, exc)>>,
           <<<<"error", ProviderMessage(exc)>>>>)
  /\ query' = user_query
  /\ pc' = "tab3"
  /\ UNCHANGED <<inputs, chat, session, full_reply, attempts, fact_generated,
                 uncaught, done>>

(* lines 78-80: the next chunk arrives, is written and accumulated *)
Tab2Chunk(text) ==
  /\ pc = "t2_stream"
  /\ Len(streamed) < MaxChunks
  /\ streamed' = Append(streamed, text)
  /\ shown' = Show("write", text)
  /\ full_reply' = Accumulate(full_reply, text)
  /\ UNCHANGED <<pc, inputs, chat, session, query, attempts, fact_generated,
                 tab, raised, uncaught, gw, log0, facts0, done>>

(* lines 78, 83-86: the stream raises instead of yielding the next chunk *)
Tab2StreamFails(exc) ==
  /\ pc = "t2_stream"
  /\ raised' = exc
  /\ shown' = Show("error", ProviderMessage(exc))
  /\ pc' = "tab3"
  /\ UNCHANGED <<inputs, chat, session, locals, tab, uncaught, gw, streamed,
                 log0, facts0, done>>

(* line 78: the stream is exhausted, the loop ends *)
Tab2StreamEnds ==
  /\ pc = "t2_stream"
  /\ pc' = "t2_you"
  /\ UNCHANGED <<inputs, chat, session, locals, uncaught, done>>
  /\ Keep

(* line 81 *)
Tab2AppendYou ==
  /\ pc = "t2_you"
  /\ chat_history' = Append(chat_history, <<"You", query>>)
  /\ pc' = "t2_guide"
  /\ UNCHANGED <<inputs, chat, fun_facts_history, locals, uncaught, done>>
  /\ Keep

(* line 82 *)
Tab2AppendGuide ==
  /\ pc = "t2_guide"
  /\ chat_history' = Append(chat_history, <<"Guide", full_reply>>)
  /\ done' = Append(done, "chat")
  /\ pc' = "tab3"
  /\ UNCHANGED <<inputs, chat, fun_facts_history, locals, uncaught>>
  /\ Keep

Tab2 ==
  \/ Tab2NoClick
  \/ \E m \in Msgs : Tab2Empty(m)
  \/ \E m \in Msgs : Tab2Send(m)
  \/ \E m \in Msgs, e \in GatewayErrors : Tab2SendFails(m, e)
  \/ \E c \in Chunks : Tab2Chunk(c)
  \/ \E e \in GatewayErrors : Tab2StreamFails(e)
  \/ Tab2StreamEnds
  \/ Tab2AppendYou
  \/ Tab2AppendGuide

(* ------------------ lines 90-125: tab 3, Voice Guide ------------------- *)
(* lines 120-125: the except clauses of tab 3; there is no clause for
   ResourceExhausted, which falls to "except Exception" *)
VoiceMessage(exc) ==
  IF exc = UnknownValueError THEN NotUnderstoodMsg
  ELSE IF exc = RequestError THEN SpeechServiceMsg
  ELSE GenericMsg

(* line 109 *)
YouSaid(voice_query) == <<"markdown", "**You said:** *" \o voice_query \o "*">>

(* line 97: mic_recorder returned nothing *)
Tab3NoAudio ==
  /\ pc = "tab3"
  /\ Enter(3, "none", <<>>, <<>>)
  /\ pc' = "tab4"
  /\ UNCHANGED <<inputs, chat, session, locals, uncaught, done>>

(* lines 101-102: writing audio.wav raises outside any try *)
Tab3WriteFails ==
  /\ pc = "tab3"
  /\ Enter(3, IOFailure, <<>>, <<<<"exception", IOFailure>>>>)
  /\ uncaught' = TRUE
  /\ clicked' = "none"
  /\ pc' = "crashed"
  /\ UNCHANGED <<secret, chat, session, locals, done>>

\* faulty variant: the unrecognised utterance is sent as an empty question
Tab3RecognizeFailsSends(exc) ==
  /\ pc = "tab3"
  /\ Enter(3, exc, <<Call("send_message", <<"">>, "stream")>>,
           <<<<"error", VoiceMessage(exc)>>>>)
  /\ chat' = [chat EXCEPT !.history = Append(@, "")]
  /\ pc' = "tab4"
  /\ UNCHANGED <<inputs, session, locals, uncaught, done>>

(* lines 106-108, 120-125: reading audio.wav or recognize_google raises *)
Tab3RecognizeFails(exc) ==
  /\ pc = "tab3"
  /\ Enter(3, exc, <<>>, <<<<"error", VoiceMessage(exc)>>>>)
  /\ pc' = "tab4"
  /\ UNCHANGED <<inputs, chat, session, locals, uncaught, done>>

(* lines 108-113: the transcript is shown and sent, whatever it is *)
Tab3Send(voice_query) ==
  /\ pc = "tab3"
  /\ Room(2)
  /\ Enter(3, "none", <<Call("send_message", <<voice_query>>, "stream")>>,
           <<YouSaid(voice_query)>>)
  /\ query' = voice_query
  /\ chat' = [chat EXCEPT !.history = Append(@, voice_query)]
  /\ full_reply' = ""
  /\ pc' = "t3_stream"
  /\ UNCHANGED <<inputs, session, attempts, fact_generated, uncaught, done>>

(* lines 108-112, 124-125: send_message itself raises *)
Tab3SendFails(voice_query, exc) ==
  /\ pc = "tab3"
  /\ Enter(3, exc, <<Call("send_message", <<voice_query>>, exc)>>,
           <<YouSaid(voice_query), <<"error", VoiceMessage(exc)>>>>)
  /\ query' = voice_query
  /\ pc' = "tab4"
  /\ UNCHANGED <<inputs, chat, session, full_reply, attempts, fact_generated,
                 uncaught, done>>

(* lines 114-116 *)
Tab3Chunk(text) ==
  /\ pc = "t3_stream"
  /\ Len(streamed) < MaxChunks
  /\ streamed' = Append(streamed, text)
  /\ shown' = Show("write", text)
  /\ full_reply' = Accumulate(full_reply, text)
  /\ UNCHANGED <<pc, inputs, chat, session, query, attempts, fact_generated,
                 tab, raised, uncaught, gw, log0, facts0, done>>

\* faulty variant: a broken stream still logs the question
Tab3StreamFailsLogsQuestion(exc) ==
  /\ pc = "t3_stream"
  /\ raised' = exc
  /\ shown' = Show("error", VoiceMessage(exc))
  /\ chat_history' = Append(chat_history, <<"You (Voice)", query>>)
  /\ pc' = "tab4"
  /\ UNCHANGED <<inputs, chat, fun_facts_history, locals, tab, uncaught, gw,
                 streamed, log0, facts0, done>>

(* lines 114, 124-125 *)
Tab3StreamFails(exc) ==
  /\ pc = "t3_stream"
  /\ raised' = exc
  /\ shown' = Show("error", VoiceMessage(exc))
  /\ pc' = "tab4"
  /\ UNCHANGED <<inputs, chat, session, locals, tab, uncaught, gw, streamed,
                 log0, facts0, done>>

(* line 114: the stream is exhausted *)
Tab3StreamEnds ==
  /\ pc = "t3_stream"
  /\ pc' = "t3_you"
  /\ UNCHANGED <<inputs, chat, session, locals, uncaught, done>>
  /\ Keep

\* faulty variant: the voice question is not logged
Tab3AppendYouSkipped ==
  /\ pc = "t3_you"
  /\ pc' = "t3_guide"
  /\ UNCHANGED <<inputs, chat, session, locals, uncaught, done>>
  /\ Keep

(* line 117 *)
Tab3AppendYou ==
  /\ pc = "t3_you"
  /\ chat_history' = Append(chat_history, <<"You (Voice)", query>>)
  /\ pc' = "t3_guide"
  /\ UNCHANGED <<inputs, chat, fun_facts_history, locals, uncaught, done>>
  /\ Keep

(* line 118 *)
Tab3AppendGuide ==
  /\ pc = "t3_guide"
  /\ chat_history' = Append(chat_history, <<"Guide", full_reply>>)
  /\ done' = Append(done, "voice")
  /\ pc' = "tab4"
  /\ UNCHANGED <<inputs, chat, fun_facts_history, locals, uncaught>>
  /\ Keep

Tab3 ==
  \/ Tab3NoAudio
  \/ Tab3WriteFails
  \/ \E e \in {IOFailure, UnknownValueError, RequestError} : Tab3RecognizeFails(e)
  \/ \E m \in Msgs : Tab3Send(m)
  \/ \E m \in Msgs, e \in GatewayErrors : Tab3SendFails(m, e)
  \/ \E c \in Chunks : Tab3Chunk(c)
  \/ \E e \in GatewayErrors : Tab3StreamFails(e)
  \/ Tab3StreamEnds
  \/ Tab3AppendYou
  \/ Tab3AppendGuide

(* ------------------ lines 129-156: tab 4, Cultural Fun Fact ------------ *)
\* faulty variant: one attempt too many
LoopContinuesOffByOne(generated, n) == ~generated /\ n <= max_attempts

(* line 137: the loop condition *)
LoopContinues(generated, n) == ~generated /\ n < max_attempts

\* faulty variant: compared with the latest fact only
IsNewFactLastOnly(new_fact, history) ==
  history = <<>> \/ new_fact # history[Len(history)]

(* line 143: new_fact not in fun_facts_history *)
IsNewFact(new_fact, history) == new_fact \notin Range(history)

(* lines 139-141: the call and what it returned or raised *)
FactCall(result) == Call("generate_content", <<FactPrompt>>, result)

(* line 131: Generate Fun Fact not clicked *)
Tab4NoClick ==
  /\ pc = "tab4"
  /\ clicked # "fact"
  /\ Enter(4, "none", <<>>, <<>>)
  /\ pc' = "tab5"
  /\ UNCHANGED <<inputs, chat, session, locals, uncaught, done>>

(* lines 131-135 *)
Tab4Begin ==
  /\ pc = "tab4"
  /\ clicked = "fact"
  /\ Room(1)
  /\ Enter(4, "none", <<>>, <<>>)
  /\ fact_generated' = FALSE
  /\ attempts' = 0
  /\ pc' = "t4_loop"
  /\ UNCHANGED <<inputs, chat, session, query, full_reply, uncaught, done>>

\* faulty variant: an accepted fact is logged but not remembered
Tab4AttemptForgets(new_fact) ==
  /\ pc = "t4_loop"
  /\ LoopContinues(fact_generated, attempts)
  /\ gw' = Append(gw, FactCall(new_fact))
  /\ IF IsNewFact(new_fact, fun_facts_history)
       THEN /\ shown' = shown \o <<<<"success", "Did You Know?">>,
                                   <<"write", new_fact>>>>
            /\ chat_history' = Append(chat_history, <<"Fun Fact", new_fact>>)
            /\ fact_generated' = TRUE
            /\ done' = Append(done, "fact")
            /\ UNCHANGED <<attempts, fun_facts_history>>
       ELSE /\ attempts' = attempts + 1
            /\ UNCHANGED <<session, shown, fact_generated, done>>
  /\ UNCHANGED <<pc, inputs, chat, query, full_reply, tab, raised, uncaught,
                 streamed, log0, facts0>>

(* lines 137-150: one iteration in which generate_content returns new_fact *)
Tab4Attempt(new_fact) ==
  /\ pc = "t4_loop"
  /\ LoopContinues(fact_generated, attempts)
  /\ gw' = Append(gw, FactCall(new_fact))
  /\ IF IsNewFact(new_fact, fun_facts_history)
       THEN /\ fun_facts_history' = Append(fun_facts_history, new_fact)
            /\ shown' = shown \o <<<<"success", "Did You Know?">>,
                                   <<"write", new_fact>>>>
            /\ chat_history' = Append(chat_history, <<"Fun Fact", new_fact>>)
            /\ fact_generated' = TRUE
            /\ done' = Append(done, "fact")
            /\ UNCHANGED attempts
       ELSE /\ attempts' = attempts + 1
            /\ UNCHANGED <<session, shown, fact_generated, done>>
  /\ UNCHANGED <<pc, inputs, chat, query, full_reply, tab, raised, uncaught,
                 streamed, log0, facts0>>

\* faulty variant: the except clause does not leave the loop
Tab4FailsRetries(exc) ==
  /\ pc = "t4_loop"
  /\ LoopContinues(fact_generated, attempts)
  /\ gw' = Append(gw, FactCall(exc))
  /\ raised' = exc
  /\ shown' = Show("error", ProviderMessage(exc))
  /\ UNCHANGED <<pc, inputs, chat, session, locals, tab, uncaught, streamed,
                 log0, facts0, done>>

(* lines 137-140, 151-156: generate_content raises, the loop is left *)
Tab4Fails(exc) ==
  /\ pc = "t4_loop"
  /\ LoopContinues(fact_generated, attempts)
  /\ gw' = Append(gw, FactCall(exc))
  /\ raised' = exc
  /\ shown' = Show("error", ProviderMessage(exc))
  /\ pc' = "tab5"
  /\ UNCHANGED <<inputs, chat, session, locals, tab, uncaught, streamed,
                 log0, facts0, done>>

(* line 137: the loop condition is false *)
Tab4LoopEnds ==
  /\ pc = "t4_loop"
  /\ ~LoopContinues(fact_generated, attempts)
  /\ pc' = "tab5"
  /\ UNCHANGED <<inputs, chat, session, locals, uncaught, done>>
  /\ Keep

Tab4 ==
  \/ Tab4NoClick
  \/ Tab4Begin
  \/ \E f \in Facts : Tab4Attempt(f)
  \/ \E e \in GatewayErrors : Tab4Fails(e)
  \/ Tab4LoopEnds

(* ------------------ lines 160-166: tab 5, Tour Log --------------------- *)
(* line 166 *)
RenderEntry(entry) == <<"markdown", "**" \o entry[1] \o ":** " \o entry[2]>>

\* faulty variant: newest entry first
RenderLogNewestFirst(log) ==
  IF log = <<>> THEN <<<<"info", NoHistoryMsg>>>>
  ELSE [i \in 1..Len(log) |-> RenderEntry(log[Len(log) + 1 - i])]

(* lines 162-166 *)
RenderLog(log) ==
  IF log = <<>> THEN <<<<"info", NoHistoryMsg>>>>
  ELSE [i \in 1..Len(log) |-> RenderEntry(log[i])]

(* the last block of the script; the run is over after it and the clicked
   button is False again *)
Tab5 ==
  /\ pc = "tab5"
  /\ Enter(5, "none", <<>>, RenderLog(chat_history))
  /\ clicked' = "none"
  /\ pc' = "idle"
  /\ UNCHANGED <<secret, chat, session, locals, uncaught, done>>

(* ------------------------- the session --------------------------------- *)
Next ==
  \/ StartNoKey
  \/ \E b \in Buttons : StartRun(b)
  \/ Tab1
  \/ Tab2
  \/ Tab3
  \/ Tab4
  \/ Tab5

Spec == Init /\ [][Next]_vars

TypeOK ==
  /\ secret \in BOOLEAN
  /\ clicked \in Buttons
  /\ chat.id \in 0..MaxRuns
  /\ attempts \in 0..max_attempts
  /\ fact_generated \in BOOLEAN
  /\ tab \in 0..5
  /\ Len(streamed) <= MaxChunks
  /\ Len(chat_history) <= MaxLog

(* ======================= properties of the session ===================== *)
Roles(log) == [i \in 1..Len(log) |-> log[i][1]]
UserRoles == {"You", "You (Voice)"}
InChatHandler == pc \in {"t2_stream", "t2_you", "t2_guide", "t3_stream", "t3_you", "t3_guide"}
UserRole == IF tab = 2 THEN "You" ELSE "You (Voice)"

(* C1: a handler in which a gateway call raised quota-exceeded or any other
   provider error, also in the middle of a reply stream, leaves the
   conversation log as it was when the handler started. *)
C1_FailureLeavesLog == raised \in GatewayErrors => chat_history = log0

\* a chat stream broke after chunks had been written, on a non-empty log
C1_Witness ==
  /\ tab \in {2, 3}
  /\ raised = ResourceExhausted
  /\ streamed # <<>>
  /\ log0 # <<>>

(* C2: the log holds exactly the entries of the successful interactions, in
   the order they completed: one for an insight or a fact, two for a text or
   voice chat turn. *)
Contribution(kind) ==
  IF kind = "insight" THEN <<"Artifact Insight">>
  ELSE IF kind = "fact" THEN <<"Fun Fact">>
  ELSE IF kind = "chat" THEN <<"You", "Guide">>
  ELSE <<"You (Voice)", "Guide">>

RECURSIVE Expected(_)
Expected(kinds) ==
  IF kinds = <<>> THEN <<>>
  ELSE Contribution(Head(kinds)) \o Expected(Tail(kinds))

RECURSIVE SumLen(_)
SumLen(kinds) ==
  IF kinds = <<>> THEN 0
  ELSE Len(Contribution(Head(kinds))) + SumLen(Tail(kinds))

C2_LogIsSumOfInteractions ==
  pc \notin {"t2_guide", "t3_guide"} =>
    /\ Len(chat_history) = SumLen(done)
    /\ Roles(chat_history) = Expected(done)

\* a run of three successful interactions of different kinds
C2_Witness ==
  /\ pc = "idle"
  /\ Len(done) >= 3
  /\ "fact" \in Range(done)
  /\ "voice" \in Range(done)
  /\ raised = "none"

(* C3: fun fact generation adds to the fact history and to the log only a
   string that was not in the fact history, at most one per invocation; after
   five duplicate results it has changed neither and rendered nothing. *)
C3_NoDuplicateFact ==
  tab = 4 =>
    /\ \/ /\ fun_facts_history = facts0
          /\ chat_history = log0
       \/ \E f \in Facts \ Range(facts0) :
             /\ fun_facts_history = Append(facts0, f)
             /\ chat_history = Append(log0, <<"Fun Fact", f>>)
    /\ attempts = max_attempts =>
         /\ fun_facts_history = facts0
         /\ chat_history = log0
         /\ shown = <<>>
         /\ ~fact_generated

\* five duplicates in a row: the loop has ended without a fact
C3_Witness ==
  /\ tab = 4
  /\ pc = "tab5"
  /\ attempts = max_attempts
  /\ Len(gw) = max_attempts
  /\ \A i \in 1..Len(gw) : gw[i].result \in Range(facts0)

(* C4: when a gateway call raises quota-exceeded, the handler shows the
   rate-limit message and not the generic error message. *)
C4_QuotaShowsRateLimit ==
  raised = ResourceExhausted =>
    /\ <<"error", QuotaMsg>> \in Range(shown)
    /\ <<"error", GenericMsg>> \notin Range(shown)

(* C5: the session holds one ChatSession, created once; it is never replaced
   or reset. *)
C5_OneChatSession == chat.id <= 1

(* C6: a chat turn enters the log only after its reply stream is exhausted,
   as the user entry with the sent message directly followed by the Guide
   entry; a finished chat handler has added both entries or none, and every
   Guide entry of the log directly follows a user entry. *)
C6_TurnCommittedWhole ==
  /\ \A i \in 1..Len(chat_history) :
       chat_history[i][1] = "Guide" =>
         i > 1 /\ chat_history[i - 1][1] \in UserRoles
  /\ pc \in {"t2_stream", "t2_you", "t3_stream", "t3_you"} => chat_history = log0
  /\ pc \in {"t2_guide", "t3_guide"} =>
       chat_history = Append(log0, <<UserRole, gw[1].args[1]>>)
  /\ (tab \in {2, 3} /\ ~InChatHandler) =>
       \/ chat_history = log0
       \/ /\ raised = "none"
          /\ gw # <<>>
          /\ chat_history = log0 \o <<<<UserRole, gw[1].args[1]>>,
                                      <<"Guide", full_reply>>>>

\* a voice turn committed after a two-chunk stream, behind earlier entries
C6_Witness ==
  /\ tab = 3
  /\ pc = "tab4"
  /\ Len(streamed) = 2
  /\ log0 # <<>>
  /\ Len(chat_history) = Len(log0) + 2

(* C7: the chunks of a reply are written in arrival order, and the reply
   recorded as the Guide entry is every streamed chunk, in arrival order,
   each followed by one space. *)
RECURSIVE SpaceJoined(_)
SpaceJoined(chunks) ==
  IF chunks = <<>> THEN ""
  ELSE Head(chunks) \o " " \o SpaceJoined(Tail(chunks))

Written(out) ==
  LET w == SelectSeq(out, LAMBDA e : e[1] = "write")
  IN  [i \in 1..Len(w) |-> w[i][2]]

C7_ReplyIsSpaceJoinedChunks ==
  tab \in {2, 3} =>
    /\ InChatHandler => full_reply = SpaceJoined(streamed)
    /\ Written(shown) = streamed
    /\ (~InChatHandler /\ chat_history # log0) =>
         chat_history[Len(chat_history)] = <<"Guide", SpaceJoined(streamed)>>

\* a committed reply of two different chunks
C7_Witness ==
  /\ tab = 2
  /\ pc = "tab3"
  /\ streamed = <<"b ", "a">>
  /\ chat_history # log0

(* C8: every error raised during an interaction is caught by the handler;
   none leaves the script run uncaught. *)
C8_NoErrorEscapes == ~uncaught

(* C9: a chat turn is sent only for a non-empty message, in the text path and
   in the voice path, and no turn with an empty message enters the log. *)
C9_EmptyNeverSent ==
  /\ \A i \in 1..Len(gw) : gw[i].method = "send_message" => gw[i].args[1] # ""
  /\ \A i \in 1..Len(chat_history) :
       chat_history[i][1] \in UserRoles => chat_history[i][2] # ""

(* C10: an invocation of fun fact generation makes at most five calls; every
   call before the last returned a string already in the fact history, and a
   first fresh result is accepted: added to the fact history, written, logged
   as one Fun Fact entry, and the loop is over. *)
C10_FirstFreshFactAccepted ==
  tab = 4 =>
    /\ Len(gw) <= max_attempts
    /\ \A i \in 1..(Len(gw) - 1) : gw[i].result \in Range(facts0)
    /\ \A i \in 1..Len(gw) :
         gw[i].result \in Facts \ Range(facts0) =>
           /\ fun_facts_history = Append(facts0, gw[i].result)
           /\ chat_history = Append(log0, <<"Fun Fact", gw[i].result>>)
           /\ Written(shown) = <<gw[i].result>>
           /\ ~LoopContinues(fact_generated, attempts)
    /\ (pc = "t4_loop" /\ Len(gw) = max_attempts) =>
         ~LoopContinues(fact_generated, attempts)

\* four duplicates, then a fresh fact on the fifth call
C10_Witness ==
  /\ tab = 4
  /\ Len(gw) = max_attempts
  /\ fact_generated
  /\ gw[max_attempts].result \notin Range(facts0)

(* C11: when generate_content fails during fun fact generation the loop is
   left at once: the failed call is the last call of the invocation, an error
   message is rendered, and the fact history is unchanged. *)
C11_FactFailureAborts ==
  (tab = 4 /\ raised \in GatewayErrors) =>
    /\ pc # "t4_loop"
    /\ gw # <<>>
    /\ gw[Len(gw)].result = raised
    /\ \A i \in 1..(Len(gw) - 1) : gw[i].result \in Range(facts0)
    /\ shown = <<<<"error", ProviderMessage(raised)>>>>
    /\ fun_facts_history = facts0
    /\ ~fact_generated

\* the third call of an invocation fails, after two duplicates
C11_Witness ==
  /\ tab = 4
  /\ raised = ProviderError
  /\ Len(gw) = 3
  /\ facts0 # <<>>

(* C12: when transcription fails with UnknownValueError or RequestError, the
   voice handler renders its message, sends no chat turn and leaves the log
   unchanged. *)
SpeechErrors == {UnknownValueError, RequestError}

C12_SpeechFailureSendsNothing ==
  (tab = 3 /\ raised \in SpeechErrors) =>
    /\ shown = <<<<"error", IF raised = UnknownValueError
                              THEN NotUnderstoodMsg ELSE SpeechServiceMsg>>>>
    /\ gw = <<>>
    /\ chat_history = log0
    /\ pc = "tab4"

\* speech not understood in a session whose log already has entries
C12_Witness ==
  /\ tab = 3
  /\ raised = UnknownValueError
  /\ chat_history # <<>>
  /\ chat.history # <<>>

(* C13: the log is append-only for the whole session: it is empty before the
   first run, and every step, a new script run included, leaves the log it
   found as a prefix of the log it leaves. *)
IsPrefix(s, t) == Len(s) <= Len(t) /\ SubSeq(t, 1, Len(s)) = s

C13_LogAppendOnly ==
  /\ chat_history = <<>>
  /\ [][IsPrefix(chat_history, chat_history')]_vars

\* the fact handler of a later script run adds to the entries it found
C13_Witness ==
  /\ chat.id >= 2
  /\ log0 # <<>>
  /\ Len(chat_history) > Len(log0)
  /\ tab = 4

(* C14: the vision endpoint is called only under an opened, rendered image;
   it gets the image alone or a non-empty question with the image; a
   successful analysis adds exactly one Artifact Insight entry with the
   returned text, and every other outcome leaves the log unchanged. *)
ImageShown == shown # <<>> /\ shown[1] = <<"image", "Uploaded Artifact">>

C14_InsightOnlyWithImage ==
  tab = 1 =>
    /\ Len(gw) <= 1
    /\ ~ImageShown => (gw = <<>> /\ chat_history = log0)
    /\ gw # <<>> =>
         /\ ImageShown
         /\ gw[1].method = "generate_content"
         /\ \/ gw[1].args = <<"image">>
            \/ \E p \in Prompts \ {""} : gw[1].args = <<p, "image">>
    /\ IF gw # <<>> /\ gw[1].result \in Insights
         THEN /\ chat_history = Append(log0, <<"Artifact Insight", gw[1].result>>)
              /\ Written(shown) = <<gw[1].result>>
              /\ raised = "none"
         ELSE chat_history = log0

\* an insight for a question about the image, added behind earlier entries
C14_Witness ==
  /\ tab = 1
  /\ gw # <<>>
  /\ gw[1].args = <<"p", "image">>
  /\ gw[1].result = "vase"
  /\ log0 # <<>>
  /\ Len(chat_history) = Len(log0) + 1

(* C15: the Tour Log block only reads: it leaves the log and the fact history
   as they were, renders the placeholder exactly when the log is empty, and
   otherwise renders each entry once, speaker and text, in log order. *)
C15_TourLogIsProjection ==
  tab = 5 =>
    /\ chat_history = log0
    /\ fun_facts_history = facts0
    /\ gw = <<>>
    /\ (chat_history = <<>>) <=> (shown = <<<<"info", NoHistoryMsg>>>>)
    /\ chat_history # <<>> =>
         /\ Len(shown) = Len(chat_history)
         /\ \A i \in 1..Len(chat_history) :
              /\ shown[i][1] = "markdown"
              /\ shown[i][2] = "**" \o chat_history[i][1] \o ":** " \o chat_history[i][2]

\* a log of an insight, a chat turn and a fact has been rendered
C15_Witness ==
  /\ tab = 5
  /\ Len(chat_history) = 4
  /\ {"Artifact Insight", "Guide", "Fun Fact"} \subseteq Range(Roles(chat_history))

(* C16: without the credential every script run ends at st.stop after the
   error message: no ChatSession is created, no tab block is entered, no
   gateway call is made and nothing is logged. *)
C16_NoKeyHaltsSession ==
  ~secret =>
    /\ pc \in {"idle", "stopped"}
    /\ pc = "stopped" => (shown = <<<<"error", KeyMsg>>>> /\ raised = "KeyError")
    /\ chat.id = 0
    /\ tab = 0
    /\ clicked = "none"
    /\ gw = <<>>
    /\ chat_history = <<>>
    /\ fun_facts_history = <<>>
    /\ done = <<>>

\* a run of a session without credential has stopped
C16_Witness ==
  /\ ~secret
  /\ pc = "stopped"
  /\ shown # <<>>

(* C17: a handler that ended in quota-exceeded, another provider error or a
   speech error is not fatal: the exception is caught, the script goes on to
   the next tab block, which can run (while the explored log has room), and
   the log and the fact history are what they were before the handler, so
   that later interactions find the session as if the failed one had not
   happened. *)
NextBlock(t) ==
  IF t = 1 THEN "tab2" ELSE IF t = 2 THEN "tab3" ELSE IF t = 3 THEN "tab4" ELSE "tab5"

C17_FailureNotFatal ==
  /\ raised \in GatewayErrors \cup SpeechErrors =>
       /\ tab \in 1..4
       /\ ~uncaught
       /\ pc = NextBlock(tab)
       /\ Room(2) => ENABLED (Tab2 \/ Tab3 \/ Tab4 \/ Tab5)
       /\ chat_history = log0
       /\ fun_facts_history = facts0
       /\ Len(chat_history) = SumLen(done)
  /\ secret => pc # "stopped"

\* after a speech service error the fact handler is about to run, in a
\* session that has logged interactions before
C17_Witness ==
  /\ tab = 3
  /\ raised = RequestError
  /\ clicked = "fact"
  /\ done # <<>>
  /\ ENABLED Tab4Begin

(* C18: the fact history never holds a string twice, and the texts of the
   Fun Fact entries of the log, in log order, are the fact history. *)
FunFactTexts(log) ==
  LET f == SelectSeq(log, LAMBDA e : e[1] = "Fun Fact")
  IN  [i \in 1..Len(f) |-> f[i][2]]

C18_FactHistoryMatchesLog ==
  /\ \A i, j \in 1..Len(fun_facts_history) :
       fun_facts_history[i] = fun_facts_history[j] => i = j
  /\ FunFactTexts(chat_history) = fun_facts_history

\* two facts in the history, with other entries in the log
C18_Witness ==
  /\ Len(fun_facts_history) = 2
  /\ Len(chat_history) > 2
  /\ tab = 4

====
